---- MODULE Spec2Model ----
(***************************************************************************)
(* Verification model of the ComputeCpp SYCL headers and examples:         *)
(*   - examples/reduction.hpp   chiu::sycl_reduce (work-group reduction)   *)
(*   - SYCL/atomic.h            cl::sycl::atomic on the host               *)
(*   - SYCL/group.h             group::async_work_group_copy and           *)
(*                              group::parallel_for_work_item on the host  *)
(*   - examples/usm.cpp         three kernels ordered by events            *)
(*   - SYCL/range.h             range<1>, range<2>, range<3> constructors  *)
(*   - SYCL/id.h                id<1>, id<2>, id<3> constructors           *)
(*   - SYCL/multi_pointer.h     multi_ptr pointer arithmetic               *)
(* Each part has its own variables, Init, actions and specification; the   *)
(* variables of the other parts stay at their idle value.                  *)
(***************************************************************************)
EXTENDS Integers, Sequences, FiniteSets, TLC

VARIABLES
    \* ---- chiu::sycl_reduce (examples/reduction.hpp) ----
    v,          \* the input vector, a function 0..N-1 -> int
    init,       \* the init argument
    maxWG,      \* device.get_info<max_work_group_size>()
    bufI,       \* the device buffer bufI
    length,     \* host variable length
    local,      \* host variable local
    hpc,        \* position of the host in sycl_reduce
    klen,       \* length as captured by the running kernel
    items,      \* the running kernel's work-items: globalid -> [pc, off, nb]
    scratch,    \* local memory: group -> (localid -> int)
    retVal,     \* the value sycl_reduce returns
    \* ---- cl::sycl::atomic on the host (SYCL/atomic.h) ----
    mem,        \* memory: address -> value of the std::atomic<T> stored there
    mem0,       \* the memory before any call (kept for the statements)
    m_data,     \* thread -> the pointer m_data of the atomic object it owns
    route,      \* thread -> "member" (object.f(..)) or "global" (atomic_f(object, ..))
    aop,        \* thread -> the operation it calls
    aarg,       \* thread -> operand (desired, for compare_exchange_strong)
    aexp,       \* thread -> its variable expected, passed by reference
    aold,       \* thread -> the local variable old of fetch_min / fetch_max
    apc,        \* thread -> "call", "cas" (inside the do-while loop) or "done"
    aret,       \* thread -> the value its call returned
    \* ---- group::async_work_group_copy on the host (SYCL/group.h) ----
    cgroupID,   \* m_groupID of the calling group
    cdir,       \* "g2l" (global to local) or "l2g" (local to global)
    cstrided,   \* whether the overload with a stride is called
    numElements,
    cstride,    \* srcStride / destStride of the strided overloads
    csrc,       \* the memory src points into
    cdest,      \* the memory dest points into
    cdest0,     \* dest before the call
    ci,         \* loop variable i
    citer,      \* loop variable srcIter / dstIter
    cpc,        \* "call", "loop", "returned" or "waited"
    \* ---- group::parallel_for_work_item on the host (SYCL/group.h) ----
    pgroup,     \* the group: [groupID, localRange, globalRange, dims]
    pflex,      \* the argument flexibleRange
    pdefault,   \* whether the overload without flexibleRange was called
    pitem,      \* the loop variables <<itemX, itemY, itemZ>>
    pphys,      \* the local variable physicalLocalID
    pcalls,     \* the h_items func has been invoked with, in order
    ppc,        \* "call", "loop" or "done"
    \* ---- examples/usm.cpp ----
    d1, d2,     \* the two shared allocations
    upc,        \* position of the host in main
    kstate,     \* kernel -> "none", "submitted" or "complete"
    wpc,        \* kernel -> work-item -> "idle", "loaded" or "done"
    wtmp,       \* kernel -> work-item -> the value it has loaded
    \* ---- range<1>, range<2>, range<3> (SYCL/range.h) ----
    rng,        \* the last range constructed: [dims, ctor, args, m_idx]
    \* ---- id<1>, id<2>, id<3> (SYCL/id.h) ----
    idobj,      \* the last id constructed: [dims, ctor, args, m_idx]
    \* ---- multi_ptr arithmetic (SYCL/multi_pointer.h) ----
    mobj,       \* the multi_ptr objects p and q: name -> m_elem (a byte address)
    msize,      \* sizeof(dataType)
    mhist       \* the operator calls made so far, in order

redVars == <<v, init, maxWG, bufI, length, local, hpc, klen, items, scratch, retVal>>

atVars == <<mem, mem0, m_data, route, aop, aarg, aexp, aold, apc, aret>>

cpVars == <<cgroupID, cdir, cstrided, numElements, cstride, csrc, cdest, cdest0, ci, citer, cpc>>

pfVars == <<pgroup, pflex, pdefault, pitem, pphys, pcalls, ppc>>

usmVars == <<d1, d2, upc, kstate, wpc, wtmp>>

rgVars == <<rng>>

idVars == <<idobj>>

mpVars == <<mobj, msize, mhist>>

vars == <<redVars, atVars, cpVars, pfVars, usmVars, rgVars, idVars, mpVars>>

\* the value of a part's variables while another part runs
IdleReduce ==
    /\ v = <<>> /\ init = 0 /\ maxWG = 0 /\ bufI = <<>> /\ length = 0 /\ local = 0
    /\ hpc = "idle" /\ klen = 0 /\ items = <<>> /\ scratch = <<>> /\ retVal = 0

IdleAtomic ==
    /\ mem = <<>> /\ mem0 = <<>> /\ m_data = <<>> /\ route = <<>> /\ aop = <<>>
    /\ aarg = <<>> /\ aexp = <<>> /\ aold = <<>> /\ apc = <<>> /\ aret = <<>>

IdleCopy ==
    /\ cgroupID = <<>> /\ cdir = "none" /\ cstrided = FALSE /\ numElements = 0
    /\ cstride = 0 /\ csrc = <<>> /\ cdest = <<>> /\ cdest0 = <<>> /\ ci = 0
    /\ citer = 0 /\ cpc = "idle"

IdlePfwi ==
    /\ pgroup = <<>> /\ pflex = <<>> /\ pdefault = FALSE /\ pitem = <<>>
    /\ pphys = <<>> /\ pcalls = <<>> /\ ppc = "idle"

IdleUsm ==
    /\ d1 = <<>> /\ d2 = <<>> /\ upc = "idle" /\ kstate = <<>> /\ wpc = <<>>
    /\ wtmp = <<>>

IdleRange == rng = <<>>

IdleId == idobj = <<>>

IdleMptr == mobj = <<>> /\ msize = 0 /\ mhist = <<>>

----------------------------------------------------------------------------
Min2(a, b) == IF a < b THEN a ELSE b

Max2(a, b) == IF a < b THEN b ELSE a

----------------------------------------------------------------------------
(* chiu::sycl_reduce, examples/reduction.hpp, and its test driver          *)

\* vector lengths and work-group sizes are 2^0 .. 2^MaxLog
MaxLog == 2

\* vector elements are drawn from 1..MaxElem
MaxElem == 2

Lens == {2^k : k \in 0..MaxLog}

WGSizes == {2^k : k \in 0..MaxLog}

Inits == {0, 100}

\* the test's binaryop: [](unsigned a, unsigned b){ return a + b; }; the
\* elements and lengths of the model keep every sum far below 2^31, where the
\* conversions int -> unsigned -> int are the identity
bop(a, b) == a + b

\* std::accumulate(v.begin(), v.end(), init, bop): a left fold
RECURSIVE AccumulateFrom(_, _, _)
AccumulateFrom(vec, i, acc) ==
    IF i \notin DOMAIN vec THEN acc
    ELSE AccumulateFrom(vec, i + 1, bop(acc, vec[i]))

Accumulate(vec, ini) == AccumulateFrom(vec, 0, ini)

\* the nd_range of one kernel: global size and work-group size
GlobalSize == Max2(klen, local)

GroupSize == Min2(klen, local)

GroupOf(gid) == gid \div GroupSize

LocalOf(gid) == gid % GroupSize

SameGroup(gid) == {j \in DOMAIN items : GroupOf(j) = GroupOf(gid)}

KernelComplete == \A g \in DOMAIN items : items[g].pc = "end"

\* id.barrier(): a work-item leaves its nb-th barrier once every work-item of
\* its group has arrived at it
BarrierOpen(gid) == \A j \in SameGroup(gid) : items[j].nb >= items[gid].nb

RInit ==
    /\ \E n \in Lens : v \in [0..(n - 1) -> 1..MaxElem]
    /\ init \in Inits
    /\ maxWG \in WGSizes
    /\ bufI = v
    /\ length = 0
    /\ local = 0
    /\ hpc = "start"
    /\ klen = 0
    /\ items = <<>>
    /\ scratch = <<>>
    /\ retVal = 0

\* lines 68-75: the buffer, local, length and the two early returns
HostStart ==
    /\ hpc = "start"
    /\ local' = Min2(Cardinality(DOMAIN v), maxWG)
    /\ length' = Cardinality(DOMAIN v)
    /\ IF length' = 0 THEN /\ retVal' = init
                           /\ hpc' = "done"
       ELSE IF length' = 1 THEN /\ retVal' = bop(init, v[0])
                                /\ hpc' = "done"
       ELSE /\ hpc' = "submit"
            /\ UNCHANGED retVal
    /\ UNCHANGED <<v, init, maxWG, bufI, klen, items, scratch>>
    /\ UNCHANGED <<atVars, cpVars, pfVars, usmVars, rgVars, idVars, mpVars>>

\* lines 80-127: one iteration of the do loop; the kernel reads and writes
\* bufI, so the runtime starts it after the previous kernel has completed
HostSubmit ==
    /\ hpc = "submit"
    /\ KernelComplete
    /\ klen' = length
    /\ items' = [g \in 0..(Max2(length, local) - 1) |-> [pc |-> "load", off |-> 0, nb |-> 0]]
    /\ scratch' = [g \in 0..((Max2(length, local) \div Min2(length, local)) - 1) |->
                       [l \in 0..(local - 1) |-> 0]]
    /\ length' = length \div local
    /\ hpc' = IF length' > 1 THEN "submit" ELSE "read"
    /\ UNCHANGED <<v, init, maxWG, bufI, local, retVal>>
    /\ UNCHANGED <<atVars, cpVars, pfVars, usmVars, rgVars, idVars, mpVars>>

\* line 101: if(globalid < length) scratch[localid] = aI[globalid]; then the
\* work-item arrives at the barrier of line 103
ItemLoad(gid) ==
    /\ items[gid].pc = "load"
    /\ scratch' = IF gid < klen
                  THEN [scratch EXCEPT ![GroupOf(gid)][LocalOf(gid)] = bufI[gid]]
                  ELSE scratch
    /\ items' = [items EXCEPT ![gid].pc = "bar", ![gid].nb = 1]
    /\ UNCHANGED <<v, init, maxWG, bufI, length, local, hpc, klen, retVal>>
    /\ UNCHANGED <<atVars, cpVars, pfVars, usmVars, rgVars, idVars, mpVars>>

\* lines 103-109: leave the first barrier; enter the loop with offset = min / 2
ItemEnter(gid) ==
    /\ items[gid].pc = "bar"
    /\ items[gid].nb = 1
    /\ BarrierOpen(gid)
    /\ IF gid < klen
       THEN LET min == IF klen < local THEN klen ELSE local
                off == min \div 2
            IN items' = [items EXCEPT ![gid].off = off,
                                      ![gid].pc = IF off > 0 THEN "loop" ELSE "write"]
       ELSE items' = [items EXCEPT ![gid].pc = "end"]
    /\ UNCHANGED <<v, init, maxWG, bufI, length, local, hpc, klen, scratch, retVal>>
    /\ UNCHANGED <<atVars, cpVars, pfVars, usmVars, rgVars, idVars, mpVars>>

\* line 110: one loop body, then the work-item arrives at the barrier of line 111
ItemReduce(gid) ==
    /\ items[gid].pc = "loop"
    /\ LET g == GroupOf(gid)
           l == LocalOf(gid)
           off == items[gid].off
       IN scratch' = IF l < off
                     THEN [scratch EXCEPT ![g][l] = bop(scratch[g][l], scratch[g][l + off])]
                     ELSE scratch
    /\ items' = [items EXCEPT ![gid].pc = "bar", ![gid].nb = @ + 1]
    /\ UNCHANGED <<v, init, maxWG, bufI, length, local, hpc, klen, retVal>>
    /\ UNCHANGED <<atVars, cpVars, pfVars, usmVars, rgVars, idVars, mpVars>>

\* lines 109-112: leave the loop's barrier; offset /= 2 and the loop test
ItemNext(gid) ==
    /\ items[gid].pc = "bar"
    /\ items[gid].nb > 1
    /\ BarrierOpen(gid)
    /\ LET off == items[gid].off \div 2
       IN items' = [items EXCEPT ![gid].off = off,
                                 ![gid].pc = IF off > 0 THEN "loop" ELSE "write"]
    /\ UNCHANGED <<v, init, maxWG, bufI, length, local, hpc, klen, scratch, retVal>>
    /\ UNCHANGED <<atVars, cpVars, pfVars, usmVars, rgVars, idVars, mpVars>>

\* line 115: if(localid == 0) aI[id.get_group(0)] = scratch[localid];
ItemWrite(gid) ==
    /\ items[gid].pc = "write"
    /\ bufI' = IF LocalOf(gid) = 0
               THEN [bufI EXCEPT ![GroupOf(gid)] = scratch[GroupOf(gid)][0]]
               ELSE bufI
    /\ items' = [items EXCEPT ![gid].pc = "end"]
    /\ UNCHANGED <<v, init, maxWG, length, local, hpc, klen, scratch, retVal>>
    /\ UNCHANGED <<atVars, cpVars, pfVars, usmVars, rgVars, idVars, mpVars>>

\* lines 134-135: the host accessor waits for the kernels, then
\* retVal = bop(init, hI[0])
HostRead ==
    /\ hpc = "read"
    /\ KernelComplete
    /\ retVal' = bop(init, bufI[0])
    /\ hpc' = "done"
    /\ UNCHANGED <<v, init, maxWG, bufI, length, local, klen, items, scratch>>
    /\ UNCHANGED <<atVars, cpVars, pfVars, usmVars, rgVars, idVars, mpVars>>

RNext ==
    \/ HostStart
    \/ HostSubmit
    \/ HostRead
    \/ \E gid \in DOMAIN items : ItemLoad(gid)
    \/ \E gid \in DOMAIN items : ItemEnter(gid)
    \/ \E gid \in DOMAIN items : ItemReduce(gid)
    \/ \E gid \in DOMAIN items : ItemNext(gid)
    \/ \E gid \in DOMAIN items : ItemWrite(gid)

InitReduce == RInit /\ IdleAtomic /\ IdleCopy /\ IdlePfwi /\ IdleUsm /\ IdleRange
    /\ IdleId /\ IdleMptr

NextReduce == RNext

SpecReduce == InitReduce /\ [][NextReduce]_vars

\* C1: for every power-of-two length, power-of-two work-group size and init,
\* sycl_reduce(v, init, bop) returns std::accumulate(v.begin(), v.end(), init, bop)
ReduceEqualsAccumulate == hpc = "done" => retVal = Accumulate(v, init)

----------------------------------------------------------------------------
(* cl::sycl::atomic<T, addressSpace> on the host, SYCL/atomic.h            *)

\* T is an unsigned integer of Bits bits (cl_uint has 32): values 0..Word-1
Bits == 2

NumThreads == 2

Word == 2^Bits

Vals == 0..(Word - 1)

Threads == 1..NumThreads

\* the addresses atomic objects can be built from
Addr == {0, 1}

\* operands of the read-modify-write calls: small values and the largest one
Operands == {0, 1, Word - 1}

notAt == <<redVars, cpVars, pfVars, usmVars, rgVars, idVars, mpVars>>

Bit1(op, x, y) ==
    CASE op = "and" -> x * y
      [] op = "or"  -> x + y - x * y
      [] op = "xor" -> (x + y) % 2

\* a bitwise operation on the Bits bits of a and b
RECURSIVE Bitwise(_, _, _, _)
Bitwise(op, a, b, n) ==
    IF n = 0 THEN 0
    ELSE Bit1(op, a % 2, b % 2) + 2 * Bitwise(op, a \div 2, b \div 2, n - 1)

(* The member functions.  cur is the value of *m_data when the call takes  *)
(* effect; the result is the value stored (mem), the value returned (ret)  *)
(* and, for the compare-exchange calls, the new value of expected (exp).   *)

\* m_data->store(operand)
store(cur, operand) == [mem |-> operand, ret |-> 0]

\* m_data->load()
load(cur) == [mem |-> cur, ret |-> cur]

\* m_data->exchange(operand)
exchange(cur, operand) == [mem |-> operand, ret |-> cur]

compare_exchange_strong_noexp(cur, expected, desired) ==
    IF cur = expected
    THEN [mem |-> desired, exp |-> expected, ret |-> 1]
    ELSE [mem |-> cur, exp |-> expected, ret |-> 0]

\* m_data->compare_exchange_strong(expected, desired)
compare_exchange_strong(cur, expected, desired) ==
    IF cur = expected
    THEN [mem |-> desired, exp |-> expected, ret |-> 1]
    ELSE [mem |-> cur, exp |-> cur, ret |-> 0]

compare_exchange_weak_store(cur, expected, desired, spurious) ==
    [mem |-> desired, exp |-> expected, ret |-> 1]

\* m_data->compare_exchange_weak(old, operand): as the strong one, but it may
\* fail spuriously, leaving memory and expected as they are
compare_exchange_weak(cur, expected, desired, spurious) ==
    IF cur = expected /\ ~spurious
    THEN [mem |-> desired, exp |-> expected, ret |-> 1]
    ELSE [mem |-> cur, exp |-> cur, ret |-> 0]

fetch_add_new(cur, operand) ==
    [mem |-> (cur + operand) % Word, ret |-> (cur + operand) % Word]

\* m_data->fetch_add(operand)
fetch_add(cur, operand) == [mem |-> (cur + operand) % Word, ret |-> cur]

\* m_data->fetch_sub(operand)
fetch_sub(cur, operand) == [mem |-> (cur - operand) % Word, ret |-> cur]

\* m_data->fetch_and(operand)
fetch_and(cur, operand) == [mem |-> Bitwise("and", cur, operand, Bits), ret |-> cur]

\* m_data->fetch_or(operand)
fetch_or(cur, operand) == [mem |-> Bitwise("or", cur, operand, Bits), ret |-> cur]

\* m_data->fetch_xor(operand)
fetch_xor(cur, operand) == [mem |-> Bitwise("xor", cur, operand, Bits), ret |-> cur]

FetchMinBreak_reversed(old, operand) == operand < old

\* fetch_min, line 345: if (old < operand) break;
FetchMinBreak(old, operand) == old < operand

\* fetch_max, line 364: if (operand < old) break;
FetchMaxBreak(old, operand) == operand < old

CopyObject_fresh(p) == 1 - p

\* the global functions take the atomic object by value: the implicit copy
\* constructor copies the pointer m_data
CopyObject(p) == p

\* the pointer m_data of the object the member function runs on
Obj(t) == IF route[t] = "global" THEN CopyObject(m_data[t]) ELSE m_data[t]

AllOps ==
    {"store", "load", "exchange", "compare_exchange_strong", "fetch_add", "fetch_sub",
     "fetch_and", "fetch_or", "fetch_xor", "fetch_min", "fetch_max"}

\* threads about to call on objects built from pointers in addrs; thread 1
\* calls one of ops by a route in routes, the others call the member function
\* of one of otherOps
InitAtomic(ops, otherOps, addrs, routes, operands, expecteds) ==
    /\ mem0 \in [Addr -> Vals]
    /\ \A a \in Addr \ addrs : mem0[a] = 0
    /\ mem = mem0
    /\ m_data \in [Threads -> addrs]
    /\ route \in [Threads -> routes \cup {"member"}]
    /\ route[1] \in routes
    /\ \A t \in Threads \ {1} : route[t] = "member"
    /\ aop \in [Threads -> ops \cup otherOps]
    /\ aop[1] \in ops
    /\ \A t \in Threads \ {1} : aop[t] \in otherOps
    /\ aarg \in [Threads -> operands]
    /\ \A t \in Threads : aop[t] = "load" => aarg[t] = 0
    /\ aexp \in [Threads -> expecteds \cup {0}]
    /\ \A t \in Threads : aop[t] # "compare_exchange_strong" => aexp[t] = 0
    /\ aold = [t \in Threads |-> 0]
    /\ apc = [t \in Threads |-> "call"]
    /\ aret = [t \in Threads |-> 0]
    /\ IdleReduce /\ IdleCopy /\ IdlePfwi /\ IdleUsm /\ IdleRange
    /\ IdleId /\ IdleMptr

\* the call of thread t takes effect and returns
Finish(t, newmem, newexp, ret) ==
    /\ mem' = [mem EXCEPT ![Obj(t)] = newmem]
    /\ aexp' = [aexp EXCEPT ![t] = newexp]
    /\ aret' = [aret EXCEPT ![t] = ret]
    /\ apc' = [apc EXCEPT ![t] = "done"]
    /\ UNCHANGED <<mem0, m_data, route, aop, aarg, aold>>
    /\ UNCHANGED notAt

CallStore(t) ==
    /\ apc[t] = "call" /\ aop[t] = "store"
    /\ Finish(t, store(mem[Obj(t)], aarg[t]).mem, aexp[t], aret[t])

CallLoad(t) ==
    /\ apc[t] = "call" /\ aop[t] = "load"
    /\ LET r == load(mem[Obj(t)]) IN Finish(t, r.mem, aexp[t], r.ret)

CallExchange(t) ==
    /\ apc[t] = "call" /\ aop[t] = "exchange"
    /\ LET r == exchange(mem[Obj(t)], aarg[t]) IN Finish(t, r.mem, aexp[t], r.ret)

CallCompareExchangeStrong(t) ==
    /\ apc[t] = "call" /\ aop[t] = "compare_exchange_strong"
    /\ LET r == compare_exchange_strong(mem[Obj(t)], aexp[t], aarg[t])
       IN Finish(t, r.mem, r.exp, r.ret)

CallFetchAdd(t) ==
    /\ apc[t] = "call" /\ aop[t] = "fetch_add"
    /\ LET r == fetch_add(mem[Obj(t)], aarg[t]) IN Finish(t, r.mem, aexp[t], r.ret)

CallFetchSub(t) ==
    /\ apc[t] = "call" /\ aop[t] = "fetch_sub"
    /\ LET r == fetch_sub(mem[Obj(t)], aarg[t]) IN Finish(t, r.mem, aexp[t], r.ret)

CallFetchAnd(t) ==
    /\ apc[t] = "call" /\ aop[t] = "fetch_and"
    /\ LET r == fetch_and(mem[Obj(t)], aarg[t]) IN Finish(t, r.mem, aexp[t], r.ret)

CallFetchOr(t) ==
    /\ apc[t] = "call" /\ aop[t] = "fetch_or"
    /\ LET r == fetch_or(mem[Obj(t)], aarg[t]) IN Finish(t, r.mem, aexp[t], r.ret)

CallFetchXor(t) ==
    /\ apc[t] = "call" /\ aop[t] = "fetch_xor"
    /\ LET r == fetch_xor(mem[Obj(t)], aarg[t]) IN Finish(t, r.mem, aexp[t], r.ret)

\* after old has been assigned (by the load or by a failed compare-exchange):
\* the test of the do-while body; break and return old, or go on to the
\* compare-exchange
LoopTest(t, old, brk) ==
    /\ aold' = [aold EXCEPT ![t] = old]
    /\ IF brk
       THEN /\ aret' = [aret EXCEPT ![t] = old]
            /\ apc' = [apc EXCEPT ![t] = "done"]
       ELSE /\ apc' = [apc EXCEPT ![t] = "cas"]
            /\ UNCHANGED aret
    /\ UNCHANGED <<mem, mem0, m_data, route, aop, aarg, aexp>>
    /\ UNCHANGED notAt

\* the compare_exchange_weak of the loop condition: on success return old, on
\* failure old holds the current value and the body runs again
LoopCas(t, r, brk) ==
    IF r.ret = 1
    THEN /\ mem' = [mem EXCEPT ![Obj(t)] = r.mem]
         /\ aret' = [aret EXCEPT ![t] = r.exp]
         /\ apc' = [apc EXCEPT ![t] = "done"]
         /\ UNCHANGED <<mem0, m_data, route, aop, aarg, aexp, aold>>
         /\ UNCHANGED notAt
    ELSE LoopTest(t, r.exp, brk)

\* fetch_min, line 343: T old = m_data->load(); then line 345
FetchMinLoad(t) ==
    /\ apc[t] = "call" /\ aop[t] = "fetch_min"
    /\ LET old == load(mem[Obj(t)]).ret
       IN LoopTest(t, old, FetchMinBreak(old, aarg[t]))

\* fetch_min, lines 348-349, then line 345 or line 350
FetchMinCas(t) ==
    /\ apc[t] = "cas" /\ aop[t] = "fetch_min"
    /\ \E spurious \in BOOLEAN :
          LET r == compare_exchange_weak(mem[Obj(t)], aold[t], aarg[t], spurious)
          IN LoopCas(t, r, FetchMinBreak(r.exp, aarg[t]))

\* fetch_max, line 362, then line 364
FetchMaxLoad(t) ==
    /\ apc[t] = "call" /\ aop[t] = "fetch_max"
    /\ LET old == load(mem[Obj(t)]).ret
       IN LoopTest(t, old, FetchMaxBreak(old, aarg[t]))

\* fetch_max, lines 367-368, then line 364 or line 369
FetchMaxCas(t) ==
    /\ apc[t] = "cas" /\ aop[t] = "fetch_max"
    /\ \E spurious \in BOOLEAN :
          LET r == compare_exchange_weak(mem[Obj(t)], aold[t], aarg[t], spurious)
          IN LoopCas(t, r, FetchMaxBreak(r.exp, aarg[t]))

AllDone == \A t \in Threads : apc[t] = "done"

\* thread t's call takes effect and returns in this step
Returns(t) == apc[t] # "done" /\ apc'[t] = "done"

(* fetch_min called concurrently on one location *)
InitMin == InitAtomic({"fetch_min"}, {"fetch_min"}, {0}, {"member"}, Vals, {0})

NextMin ==
    \/ \E t \in Threads : FetchMinLoad(t)
    \/ \E t \in Threads : FetchMinCas(t)

SpecMin == InitMin /\ [][NextMin]_vars

(* fetch_max called concurrently on one location *)
InitMax == InitAtomic({"fetch_max"}, {"fetch_max"}, {0}, {"member"}, Vals, {0})

NextMax ==
    \/ \E t \in Threads : FetchMaxLoad(t)
    \/ \E t \in Threads : FetchMaxCas(t)

SpecMax == InitMax /\ [][NextMax]_vars

\* the smallest and the largest element of a non-empty set of numbers
SetMin(S) == CHOOSE x \in S : \A y \in S : x <= y

SetMax(S) == CHOOSE x \in S : \A y \in S : y <= x

\* the operands of the calls made on the location a
OperandsOn(a) == {aarg[t] : t \in {u \in Threads : m_data[u] = a}}

\* C2: fetch_min is atomic: each call returns the value the location held
\* immediately before the call took effect and leaves the smaller of that value
\* and operand stored; after any interleaving of fetch_min calls the location
\* holds the minimum of its initial value and all operands
FetchMinAtomic ==
    /\ [][\A t \in Threads : (aop[t] = "fetch_min" /\ Returns(t)) =>
             /\ aret'[t] = mem[m_data[t]]
             /\ mem'[m_data[t]] = (IF aarg[t] < mem[m_data[t]]
                                   THEN aarg[t] ELSE mem[m_data[t]])]_vars
    /\ [](AllDone => \A a \in Addr : mem[a] = SetMin({mem0[a]} \cup OperandsOn(a)))

\* every call has returned, the location has been lowered and some call
\* returned a value another call had stored
FetchMinWitness ==
    /\ AllDone
    /\ \A t \in Threads : aop[t] = "fetch_min"
    /\ mem[0] < mem0[0]
    /\ \E t \in Threads : aret[t] # mem0[0] /\ aarg[t] < aret[t]

\* C3: fetch_max is atomic: each call returns the value the location held
\* immediately before the call took effect and leaves the larger of that value
\* and operand stored; after any interleaving of fetch_max calls the location
\* holds the maximum of its initial value and all operands
FetchMaxAtomic ==
    /\ [][\A t \in Threads : (aop[t] = "fetch_max" /\ Returns(t)) =>
             /\ aret'[t] = mem[m_data[t]]
             /\ mem'[m_data[t]] = (IF mem[m_data[t]] < aarg[t]
                                   THEN aarg[t] ELSE mem[m_data[t]])]_vars
    /\ [](AllDone => \A a \in Addr : mem[a] = SetMax({mem0[a]} \cup OperandsOn(a)))

\* every call has returned, the location has been raised and some call
\* returned a value another call had stored
FetchMaxWitness ==
    /\ AllDone
    /\ \A t \in Threads : aop[t] = "fetch_max"
    /\ mem0[0] < mem[0]
    /\ \E t \in Threads : aret[t] # mem0[0] /\ aret[t] < aarg[t]

(* compare_exchange_strong and store called concurrently on one location *)
InitCas ==
    InitAtomic({"compare_exchange_strong", "store"}, {"compare_exchange_strong", "store"},
               {0}, {"member"}, Operands, Operands)

NextCas ==
    \/ \E t \in Threads : CallCompareExchangeStrong(t)
    \/ \E t \in Threads : CallStore(t)

SpecCas == InitCas /\ [][NextCas]_vars

\* C4: compare_exchange_strong(expected, desired) in one atomic step: if the
\* location equals expected it stores desired, leaves expected unchanged and
\* returns true; otherwise it leaves the location unchanged, writes the
\* location's value into expected and returns false
CompareExchangeStrongStep ==
    [][\A t \in Threads : (aop[t] = "compare_exchange_strong" /\ Returns(t)) =>
          IF mem[m_data[t]] = aexp[t]
          THEN /\ mem' = [mem EXCEPT ![m_data[t]] = aarg[t]]
               /\ aexp'[t] = aexp[t]
               /\ aret'[t] = 1
          ELSE /\ mem' = mem
               /\ aexp'[t] = mem[m_data[t]]
               /\ aret'[t] = 0]_vars

\* one compare_exchange_strong succeeded and changed the location, another one
\* failed and had its expected overwritten by the value the first one stored
CompareExchangeStrongWitness ==
    \E t, u \in Threads :
        /\ t # u
        /\ aop[t] = "compare_exchange_strong" /\ aop[u] = "compare_exchange_strong"
        /\ apc[t] = "done" /\ apc[u] = "done"
        /\ aret[t] = 1 /\ mem[0] # mem0[0]
        /\ aret[u] = 0 /\ aexp[u] = aarg[t] /\ aexp[u] # mem0[0]

(* the read-modify-write calls, called concurrently on one location *)
RmwOps == {"exchange", "fetch_add", "fetch_sub", "fetch_and", "fetch_or", "fetch_xor"}

InitRmw == InitAtomic(RmwOps, RmwOps, {0}, {"member"}, Operands, {0})

NextRmw ==
    \/ \E t \in Threads : CallExchange(t)
    \/ \E t \in Threads : CallFetchAdd(t)
    \/ \E t \in Threads : CallFetchSub(t)
    \/ \E t \in Threads : CallFetchAnd(t)
    \/ \E t \in Threads : CallFetchOr(t)
    \/ \E t \in Threads : CallFetchXor(t)

SpecRmw == InitRmw /\ [][NextRmw]_vars

\* bit i of x
BitAt(x, i) == (x \div (2^i)) % 2

\* the value (old op operand) of T, arithmetic being modulo 2^Bits
OldOpOperand(op, old, operand) ==
    CASE op = "exchange"  -> operand
      [] op = "fetch_add" -> CHOOSE x \in Vals : (x - old - operand) % Word = 0
      [] op = "fetch_sub" -> CHOOSE x \in Vals : (x + operand - old) % Word = 0
      [] op = "fetch_and" ->
            CHOOSE x \in Vals : \A i \in 0..(Bits - 1) :
                BitAt(x, i) = 1 <=> (BitAt(old, i) = 1 /\ BitAt(operand, i) = 1)
      [] op = "fetch_or" ->
            CHOOSE x \in Vals : \A i \in 0..(Bits - 1) :
                BitAt(x, i) = 1 <=> (BitAt(old, i) = 1 \/ BitAt(operand, i) = 1)
      [] op = "fetch_xor" ->
            CHOOSE x \in Vals : \A i \in 0..(Bits - 1) :
                BitAt(x, i) = 1 <=> (BitAt(old, i) # BitAt(operand, i))

\* C5: exchange, fetch_add, fetch_sub, fetch_and, fetch_or and fetch_xor each
\* atomically replace the stored value by operand (exchange) or by (old value
\* op operand), in the arithmetic of T, and return the old value; when every
\* thread calls fetch_add(1) on a location holding v, the location finally
\* holds v + k and the k returned values are exactly v, v+1, ..., v+k-1
RmwAtomic ==
    /\ [][\A t \in Threads : (aop[t] \in RmwOps /\ Returns(t)) =>
             /\ aret'[t] = mem[m_data[t]]
             /\ mem' = [mem EXCEPT ![m_data[t]] =
                            OldOpOperand(aop[t], mem[m_data[t]], aarg[t])]]_vars
    /\ []((AllDone /\ \A t \in Threads : aop[t] = "fetch_add" /\ aarg[t] = 1) =>
             /\ mem[0] = (mem0[0] + NumThreads) % Word
             /\ {aret[t] : t \in Threads} =
                    {(mem0[0] + j) % Word : j \in 0..(NumThreads - 1)}
             /\ Cardinality({aret[t] : t \in Threads}) = NumThreads)

\* every thread has called fetch_add(1) and has returned, and the counter has
\* wrapped around
FetchAddWitness ==
    /\ AllDone
    /\ \A t \in Threads : aop[t] = "fetch_add" /\ aarg[t] = 1
    /\ mem0[0] = Word - 1
    /\ \E t \in Threads : aret[t] = 0

(* a global function called on one object, member load called on the others *)
InitGlobal == InitAtomic(AllOps, {"load"}, Addr, {"global"}, Operands, Vals)

NextGlobal ==
    \/ \E t \in Threads : CallStore(t)
    \/ \E t \in Threads : CallLoad(t)
    \/ \E t \in Threads : CallExchange(t)
    \/ \E t \in Threads : CallCompareExchangeStrong(t)
    \/ \E t \in Threads : CallFetchAdd(t)
    \/ \E t \in Threads : CallFetchSub(t)
    \/ \E t \in Threads : CallFetchAnd(t)
    \/ \E t \in Threads : CallFetchOr(t)
    \/ \E t \in Threads : CallFetchXor(t)
    \/ \E t \in Threads : FetchMinLoad(t)
    \/ \E t \in Threads : FetchMinCas(t)
    \/ \E t \in Threads : FetchMaxLoad(t)
    \/ \E t \in Threads : FetchMaxCas(t)

SpecGlobal == InitGlobal /\ [][NextGlobal]_vars

\* what the member call object.f(args...) stores, returns and leaves in
\* expected when it runs on a location holding cur
MemberCall(op, cur, operand, expected) ==
    LET r == CASE op = "store" -> store(cur, operand)
               [] op = "load" -> load(cur)
               [] op = "exchange" -> exchange(cur, operand)
               [] op = "compare_exchange_strong" ->
                      compare_exchange_strong(cur, expected, operand)
               [] op = "fetch_add" -> fetch_add(cur, operand)
               [] op = "fetch_sub" -> fetch_sub(cur, operand)
               [] op = "fetch_and" -> fetch_and(cur, operand)
               [] op = "fetch_or" -> fetch_or(cur, operand)
               [] op = "fetch_xor" -> fetch_xor(cur, operand)
               [] op = "fetch_min" ->
                      IF FetchMinBreak(cur, operand) THEN load(cur)
                      ELSE [mem |-> compare_exchange_weak(cur, cur, operand, FALSE).mem,
                            ret |-> cur]
               [] op = "fetch_max" ->
                      IF FetchMaxBreak(cur, operand) THEN load(cur)
                      ELSE [mem |-> compare_exchange_weak(cur, cur, operand, FALSE).mem,
                            ret |-> cur]
    IN [mem |-> r.mem, ret |-> r.ret,
        exp |-> IF op = "compare_exchange_strong" THEN r.exp ELSE expected]

\* the value of the location thread 1 operates on once its call has returned,
\* no other thread writing to it
ValueAfterCall1 ==
    IF aop[1] = "compare_exchange_strong"
    THEN (IF aret[1] = 1 THEN aarg[1] ELSE mem0[m_data[1]])
    ELSE MemberCall(aop[1], mem0[m_data[1]], aarg[1], 0).mem

\* C6: a global function atomic_f(object, args...) has the result and the
\* effect on memory of the member call object.f(args...): it updates the
\* location the original object refers to, and a load through any other object
\* built from the same pointer returns the updated value
GlobalSameAsMember ==
    /\ [][\A t \in Threads : (route[t] = "global" /\ Returns(t)) =>
             LET e == MemberCall(aop[t], mem[m_data[t]], aarg[t], aexp[t])
             IN /\ mem' = [mem EXCEPT ![m_data[t]] = e.mem]
                /\ aret'[t] = e.ret
                /\ aexp'[t] = e.exp]_vars
    /\ [][\A u \in Threads \ {1} :
             (Returns(u) /\ apc[1] = "done" /\ m_data[u] = m_data[1]) =>
                 aret'[u] = ValueAfterCall1]_vars

\* atomic_fetch_add(object, operand) has returned and changed the location;
\* then a load through another object built from the same pointer has returned
\* the new value, while the other location is as it was
GlobalWitness ==
    /\ AllDone
    /\ aop[1] = "fetch_add" /\ route[1] = "global"
    /\ m_data[1] = 0 /\ m_data[2] = 0
    /\ aret[1] = mem0[0]
    /\ mem[0] # mem0[0]
    /\ aret[2] = mem[0]
    /\ mem[1] = mem0[1]

----------------------------------------------------------------------------
(* group::async_work_group_copy on the host, SYCL/group.h, and             *)
(* device_event, SYCL/device_event.h                                       *)

\* numElements is drawn from 0..MaxElements
MaxElements == 2

\* the strides are drawn from 1..MaxStride
MaxStride == 2

\* each component of the group id is drawn from 0..MaxGroupId
MaxGroupId == 1

\* the cells either pointer can reach
Cells == 0..(MaxElements * MaxStride)

notCp == <<redVars, atVars, pfVars, usmVars, rgVars, idVars, mpVars>>

\* group::is_zero_id()
is_zero_id(groupID) == (groupID[0] = 0) /\ (groupID[1] = 0) /\ (groupID[2] = 0)

InitCopy ==
    /\ cgroupID \in [0..2 -> 0..MaxGroupId]
    /\ cdir \in {"g2l", "l2g"}
    /\ cstrided \in BOOLEAN
    /\ numElements \in 0..MaxElements
    /\ cstride \in 0..MaxStride
    /\ cstrided <=> cstride > 0
    /\ csrc = [c \in Cells |-> c + 1]
    /\ cdest0 = [c \in Cells |-> 0]
    /\ cdest = cdest0
    /\ ci = 0
    /\ citer = 0
    /\ cpc = "call"
    /\ IdleReduce /\ IdleAtomic /\ IdlePfwi /\ IdleUsm /\ IdleRange
    /\ IdleId /\ IdleMptr

\* the body of the strided overloads up to the loop: if (this->is_zero_id())
StridedEntry(stride) ==
    /\ cstride' = stride
    /\ ci' = 0
    /\ citer' = 0
    /\ cpc' = IF is_zero_id(cgroupID) THEN "loop" ELSE "returned"
    /\ UNCHANGED <<cgroupID, cdir, cstrided, numElements, csrc, cdest, cdest0>>
    /\ UNCHANGED notCp

\* async_work_group_copy(local_ptr dest, global_ptr src, numElements):
\* stride = 1, then the strided overload
CopyGlobalToLocal ==
    /\ cpc = "call" /\ cdir = "g2l" /\ ~cstrided
    /\ StridedEntry(1)

\* async_work_group_copy(global_ptr dest, local_ptr src, numElements)
CopyLocalToGlobal ==
    /\ cpc = "call" /\ cdir = "l2g" /\ ~cstrided
    /\ StridedEntry(1)

\* async_work_group_copy(local_ptr dest, global_ptr src, numElements, srcStride)
CopyGlobalToLocalStrided ==
    /\ cpc = "call" /\ cdir = "g2l" /\ cstrided
    /\ StridedEntry(cstride)

\* async_work_group_copy(global_ptr dest, local_ptr src, numElements, destStride)
CopyLocalToGlobalStrided ==
    /\ cpc = "call" /\ cdir = "l2g" /\ cstrided
    /\ StridedEntry(cstride)

\* lines 320-323: *(dest + i) = *(src + srcIter); srcIter += srcStride;
StepGlobalToLocal ==
    /\ cpc = "loop" /\ cdir = "g2l"
    /\ ci < numElements
    /\ cdest' = [cdest EXCEPT ![ci] = csrc[citer]]
    /\ citer' = citer + cstride
    /\ ci' = ci + 1
    /\ UNCHANGED <<cgroupID, cdir, cstrided, numElements, cstride, csrc, cdest0, cpc>>
    /\ UNCHANGED notCp

\* lines 347-350: *(dest + dstIter) = *(src + i); dstIter += destStride;
StepLocalToGlobal ==
    /\ cpc = "loop" /\ cdir = "l2g"
    /\ ci < numElements
    /\ cdest' = [cdest EXCEPT ![citer] = csrc[ci]]
    /\ citer' = citer + cstride
    /\ ci' = ci + 1
    /\ UNCHANGED <<cgroupID, cdir, cstrided, numElements, cstride, csrc, cdest0, cpc>>
    /\ UNCHANGED notCp

\* the loop ends: return device_event();
CopyReturn ==
    /\ cpc = "loop"
    /\ ~(ci < numElements)
    /\ cpc' = "returned"
    /\ UNCHANGED <<cgroupID, cdir, cstrided, numElements, cstride, csrc, cdest, cdest0, ci, citer>>
    /\ UNCHANGED notCp

\* device_event::wait(): nothing to do on the host
EventWait ==
    /\ cpc = "returned"
    /\ cpc' = "waited"
    /\ UNCHANGED <<cgroupID, cdir, cstrided, numElements, cstride, csrc, cdest, cdest0, ci, citer>>
    /\ UNCHANGED notCp

NextCopy ==
    \/ CopyGlobalToLocal
    \/ CopyLocalToGlobal
    \/ CopyGlobalToLocalStrided
    \/ CopyLocalToGlobalStrided
    \/ StepGlobalToLocal
    \/ StepLocalToGlobal
    \/ CopyReturn
    \/ EventWait

SpecCopy == InitCopy /\ [][NextCopy]_vars

\* C7: whichever work-group calls async_work_group_copy, once the call has
\* returned and the event has been waited on, dest[i] = src[i * srcStride]
\* (global to local) and dest[i * destStride] = src[i] (local to global) for
\* every i < numElements; without a stride argument the stride is 1
CopyComplete ==
    cpc = "waited" =>
        LET stride == IF cstrided THEN cstride ELSE 1
        IN \A i \in 0..(numElements - 1) :
               /\ cdir = "g2l" => cdest[i] = csrc[i * stride]
               /\ cdir = "l2g" => cdest[i * stride] = csrc[i]

----------------------------------------------------------------------------
(* group::parallel_for_work_item on the host, SYCL/group.h                 *)

\* each used component of a range is drawn from 0..MaxRange (from 1 for the
\* group's local range)
MaxRange == 2

Dims == 1..3

notPf == <<redVars, atVars, cpVars, usmVars, rgVars, idVars, mpVars>>

\* index_array(x, y, z): m_idx[0] = x, m_idx[1] = y, m_idx[2] = z
index_array(x, y, z) == [i \in 0..2 |-> IF i = 0 THEN x ELSE IF i = 1 THEN y ELSE z]

\* id<dims>(const index_array&): id<1>(a[0]) = (a[0], 0, 0),
\* id<2>(a[0], a[1]) = (a[0], a[1], 0), id<3>(a[0], a[1], a[2])
id_from(dims, a) == [i \in 0..2 |-> IF i < dims THEN a[i] ELSE 0]

\* range<dims>(const index_array&): range<1>(a[0]) = (a[0], 1, 1),
\* range<2>(a[0], a[1]) = (a[0], a[1], 1), range<3>(a[0], a[1], a[2])
range_from(dims, a) == [i \in 0..2 |-> IF i < dims THEN a[i] ELSE 1]

\* range * id and id + id of index_array_operators: an id whose first dims
\* components are computed, the others being those of id()
IdxMul(dims, a, b) == [i \in 0..2 |-> IF i < dims THEN a[i] * b[i] ELSE 0]

IdxAdd(dims, a, b) == [i \in 0..2 |-> IF i < dims THEN a[i] + b[i] ELSE 0]

\* group::get_local_range()
get_local_range == range_from(pgroup.dims, pgroup.localRange)

LoopBound_physical(i) == get_local_range[i]

\* the bound of the loop over dimension i: flexibleRange[i]
LoopBound(i) == pflex[i]

\* the h_item built in the loop body, lines 230-236
h_item(dims, itemX, itemY, itemZ, physicalLocalID) ==
    LET physicalLocalRange == get_local_range
        globalIdBase == IdxMul(dims, physicalLocalRange, id_from(dims, pgroup.groupID))
    IN [localID |-> id_from(dims, index_array(itemX, itemY, itemZ)),
        localRange |-> pflex,
        physicalLocalID |-> physicalLocalID,
        physicalLocalRange |-> physicalLocalRange,
        globalID |-> IdxAdd(dims, globalIdBase, physicalLocalID),
        globalRange |-> pgroup.globalRange]

InitPfwi ==
    /\ \E dims \in Dims :
       \E lr \in [0..2 -> 1..MaxRange] :
       \E gid \in [0..2 -> 0..1] :
           /\ \A i \in 0..2 : i >= dims => (lr[i] = 1 /\ gid[i] = 0)
           /\ \A i \in 0..2 : gid[i] = gid[0] \/ i >= dims
           /\ pgroup = [dims |-> dims, groupID |-> gid, localRange |-> lr,
                        globalRange |-> [i \in 0..2 |-> IF i < dims THEN 2 * lr[i] ELSE 1]]
           /\ pdefault \in BOOLEAN
           /\ pflex \in [0..2 -> 0..MaxRange]
           /\ \A i \in 0..2 : i >= dims => pflex[i] = 1
           /\ pdefault => pflex = [i \in 0..2 |-> IF i < dims THEN 0 ELSE 1]
    /\ pitem = index_array(0, 0, 0)
    /\ pphys = index_array(0, 0, 0)
    /\ pcalls = <<>>
    /\ ppc = "call"
    /\ IdleReduce /\ IdleAtomic /\ IdleCopy /\ IdleUsm /\ IdleRange
    /\ IdleId /\ IdleMptr

\* lines 216-223: the locals, id<dimensions> physicalLocalID, itemZ = 0
LoopEntry(flexibleRange) ==
    /\ pflex' = flexibleRange
    /\ pphys' = id_from(pgroup.dims, index_array(0, 0, 0))
    /\ pitem' = index_array(0, 0, 0)
    /\ ppc' = "forZ"
    /\ UNCHANGED <<pgroup, pdefault, pcalls>>
    /\ UNCHANGED notPf

\* parallel_for_work_item(func): the call with this->get_local_range()
PfwiDefault ==
    /\ ppc = "call" /\ pdefault
    /\ LoopEntry(get_local_range)

\* parallel_for_work_item(flexibleRange, func)
PfwiFlexible ==
    /\ ppc = "call" /\ ~pdefault
    /\ LoopEntry(pflex)

\* line 223-225: for (itemZ ...; itemZ < flexibleRange[2]; ...)
ForZ ==
    /\ ppc = "forZ"
    /\ IF pitem[2] < LoopBound(2)
       THEN /\ pphys' = [pphys EXCEPT ![2] = pitem[2] % get_local_range[2]]
            /\ pitem' = [pitem EXCEPT ![1] = 0]
            /\ ppc' = "forY"
       ELSE /\ ppc' = "done"
            /\ UNCHANGED <<pphys, pitem>>
    /\ UNCHANGED <<pgroup, pflex, pdefault, pcalls>>
    /\ UNCHANGED notPf

\* lines 225-227: for (itemY ...; itemY < flexibleRange[1]; ...), or itemZ++
ForY ==
    /\ ppc = "forY"
    /\ IF pitem[1] < LoopBound(1)
       THEN /\ pphys' = [pphys EXCEPT ![1] = pitem[1] % get_local_range[1]]
            /\ pitem' = [pitem EXCEPT ![0] = 0]
            /\ ppc' = "forX"
       ELSE /\ pitem' = [pitem EXCEPT ![2] = @ + 1]
            /\ ppc' = "forZ"
            /\ UNCHANGED pphys
    /\ UNCHANGED <<pgroup, pflex, pdefault, pcalls>>
    /\ UNCHANGED notPf

\* lines 227-239: for (itemX ...; itemX < flexibleRange[0]; itemX++) with the
\* body that calls func(currentItem), or itemY++
ForX ==
    /\ ppc = "forX"
    /\ IF pitem[0] < LoopBound(0)
       THEN /\ pphys' = [pphys EXCEPT ![0] = pitem[0] % get_local_range[0]]
            /\ pcalls' = Append(pcalls,
                                h_item(pgroup.dims, pitem[0], pitem[1], pitem[2], pphys'))
            /\ pitem' = [pitem EXCEPT ![0] = @ + 1]
       ELSE /\ pitem' = [pitem EXCEPT ![1] = @ + 1]
            /\ UNCHANGED <<pphys, pcalls>>
    /\ ppc' = IF pitem[0] < LoopBound(0) THEN "forX" ELSE "forY"
    /\ UNCHANGED <<pgroup, pflex, pdefault>>
    /\ UNCHANGED notPf

NextPfwi ==
    \/ PfwiDefault
    \/ PfwiFlexible
    \/ ForZ
    \/ ForY
    \/ ForX

SpecPfwi == InitPfwi /\ [][NextPfwi]_vars

\* the logical range of the call: the argument, or the group's local range
LogicalRange == IF pdefault THEN range_from(pgroup.dims, pgroup.localRange) ELSE pflex

\* the n-th logical id (from 0) of range r, dimension 0 varying fastest
NthId(r, n) ==
    [i \in 0..2 |-> IF i = 0 THEN n % r[0]
                    ELSE IF i = 1 THEN (n \div r[0]) % r[1]
                    ELSE n \div (r[0] * r[1])]

\* C8: parallel_for_work_item(flexibleRange, func) invokes func exactly once
\* for every logical local id of flexibleRange, flexibleRange[0] *
\* flexibleRange[1] * flexibleRange[2] times in all, one after another with
\* dimension 0 varying fastest, each h_item carrying that id and flexibleRange
\* as its logical range; parallel_for_work_item(func) is the call with the
\* group's local range
WorkItemsOnce ==
    ppc = "done" =>
        LET r == LogicalRange
        IN /\ Len(pcalls) = r[0] * r[1] * r[2]
           /\ \A k \in 1..Len(pcalls) :
                  /\ pcalls[k].localID = NthId(r, k - 1)
                  /\ pcalls[k].localRange = r
           /\ \A x \in 0..(r[0] - 1) : \A y \in 0..(r[1] - 1) : \A z \in 0..(r[2] - 1) :
                  Cardinality({k \in 1..Len(pcalls) :
                                  pcalls[k].localID = index_array(x, y, z)}) = 1

\* a three-dimensional call with a logical range larger than one in every
\* dimension and different from the group's local range has returned
WorkItemsWitness ==
    /\ ppc = "done"
    /\ ~pdefault
    /\ pgroup.dims = 3
    /\ \A i \in 0..2 : pflex[i] = MaxRange
    /\ pflex # pgroup.localRange
    /\ Len(pcalls) = MaxRange * MaxRange * MaxRange

----------------------------------------------------------------------------
(* The USM example, examples/usm.cpp                                       *)

\* static const int N = 4
N == 4

Kernels == 1..3

Items == 0..(N - 1)

notUsm == <<redVars, atVars, cpVars, pfVars, rgVars, idVars, mpVars>>

DepsOf3_e1 == {1}

\* the dependency list {e1, e2} of the third parallel_for
DepsOf3 == {1, 2}

\* the events a kernel was submitted with
DepsOf(k) == IF k = 3 THEN DepsOf3 ELSE {}

\* the queue lets a submitted kernel run once every event of its dependency
\* list is complete
Ready(k) ==
    /\ kstate[k] = "submitted"
    /\ \A e \in DepsOf(k) : kstate[e] = "complete"

\* the value a work-item of kernel k stores for index i
KernelBody(k, i) ==
    IF k = 1 THEN d1[i] + 2
    ELSE IF k = 2 THEN d2[i] + 3
    ELSE d1[i] + d2[i]

InitUsm ==
    /\ d1 = [i \in Items |-> 0]
    /\ d2 = [i \in Items |-> 0]
    /\ upc = "init"
    /\ kstate = [k \in Kernels |-> "none"]
    /\ wpc = [k \in Kernels |-> [i \in Items |-> "ready"]]
    /\ wtmp = [k \in Kernels |-> [i \in Items |-> 0]]
    /\ IdleReduce /\ IdleAtomic /\ IdleCopy /\ IdlePfwi /\ IdleRange
    /\ IdleId /\ IdleMptr

\* for (i < N) { d1[i] = 10; d2[i] = 10; }
HostInit ==
    /\ upc = "init"
    /\ d1' = [i \in Items |-> 10]
    /\ d2' = [i \in Items |-> 10]
    /\ upc' = "e1"
    /\ UNCHANGED <<kstate, wpc, wtmp>>
    /\ UNCHANGED notUsm

HostSubmitKernel(k, next) ==
    /\ kstate' = [kstate EXCEPT ![k] = "submitted"]
    /\ upc' = next
    /\ UNCHANGED <<d1, d2, wpc, wtmp>>
    /\ UNCHANGED notUsm

\* auto e1 = q.parallel_for(range<1>(N), ...)
SubmitE1 == upc = "e1" /\ HostSubmitKernel(1, "e2")

\* auto e2 = q.parallel_for(range<1>(N), ...)
SubmitE2 == upc = "e2" /\ HostSubmitKernel(2, "k3")

\* q.parallel_for(range<1>(N), {e1, e2}, ...)
SubmitK3 == upc = "k3" /\ HostSubmitKernel(3, "wait")

\* a work-item reads the operands of its compound assignment
UsmItemLoad(k, i) ==
    /\ Ready(k)
    /\ wpc[k][i] = "ready"
    /\ wtmp' = [wtmp EXCEPT ![k][i] = KernelBody(k, i)]
    /\ wpc' = [wpc EXCEPT ![k][i] = "loaded"]
    /\ UNCHANGED <<d1, d2, upc, kstate>>
    /\ UNCHANGED notUsm

\* and stores the result: d1[i] for the first and third kernel, d2[i] for the
\* second
UsmItemStore(k, i) ==
    /\ wpc[k][i] = "loaded"
    /\ IF k = 2
       THEN d2' = [d2 EXCEPT ![i] = wtmp[k][i]] /\ UNCHANGED d1
       ELSE d1' = [d1 EXCEPT ![i] = wtmp[k][i]] /\ UNCHANGED d2
    /\ wpc' = [wpc EXCEPT ![k][i] = "done"]
    /\ UNCHANGED <<upc, kstate, wtmp>>
    /\ UNCHANGED notUsm

\* the kernel's event completes when all its work-items have finished
UsmKernelComplete(k) ==
    /\ kstate[k] = "submitted"
    /\ \A i \in Items : wpc[k][i] = "done"
    /\ kstate' = [kstate EXCEPT ![k] = "complete"]
    /\ UNCHANGED <<d1, d2, upc, wpc, wtmp>>
    /\ UNCHANGED notUsm

\* .wait() on the third kernel's event
HostWait ==
    /\ upc = "wait"
    /\ kstate[3] = "complete"
    /\ upc' = "done"
    /\ UNCHANGED <<d1, d2, kstate, wpc, wtmp>>
    /\ UNCHANGED notUsm

NextUsm ==
    \/ HostInit
    \/ SubmitE1
    \/ SubmitE2
    \/ SubmitK3
    \/ \E k \in Kernels : \E i \in Items : UsmItemLoad(k, i)
    \/ \E k \in Kernels : \E i \in Items : UsmItemStore(k, i)
    \/ \E k \in Kernels : UsmKernelComplete(k)
    \/ HostWait

SpecUsm == InitUsm /\ [][NextUsm]_vars

----------------------------------------------------------------------------
(* range<1>, range<2>, range<3>, SYCL/range.h                              *)

\* constructor arguments are drawn from 0..MaxDim
MaxDim == 4

DimArgs == 0..MaxDim

notRg == <<redVars, atVars, cpVars, pfVars, usmVars, idVars, mpVars>>

\* index_array_operators(a, b, c) : index_array_base(a, b, c)
index_array_operators(a, b, c) == index_array(a, b, c)

\* index_array::is_equal<dimensions>, behind operator==
is_equal(dimensions, lhs, rhs) ==
    /\ lhs[0] = rhs[0]
    /\ dimensions > 1 => lhs[1] = rhs[1]
    /\ dimensions > 2 => lhs[2] = rhs[2]

\* range<1>::range(), range<2>::range(), range<3>::range()
range_default(dims) == index_array_operators(1, 1, 1)

\* range<1>::range(size_t dim1)
range1(dim1) == index_array_operators(dim1, 1, 1)

range2_zero(dim1, dim2) == index_array_operators(dim1, dim2, 0)

\* range<2>::range(size_t dim1, size_t dim2)
range2(dim1, dim2) == index_array_operators(dim1, dim2, 1)

\* range<3>::range(size_t dim1, size_t dim2, size_t dim3)
range3(dim1, dim2, dim3) == index_array_operators(dim1, dim2, dim3)

\* no range has been constructed yet
InitRange ==
    /\ rng = [dims |-> 0, ctor |-> "none", args |-> <<>>, m_idx |-> <<>>]
    /\ IdleReduce /\ IdleAtomic /\ IdleCopy /\ IdlePfwi /\ IdleUsm
    /\ IdleId /\ IdleMptr

\* the constructed object: its type, how it was constructed, and m_idx
Object(dims, ctor, args, m_idx) ==
    [dims |-> dims, ctor |-> ctor, args |-> args, m_idx |-> m_idx]

RangeDefault(dims) ==
    /\ rng' = Object(dims, "default", <<>>, range_default(dims))
    /\ UNCHANGED notRg

Range1(dim1) ==
    /\ rng' = Object(1, "sizes", <<dim1>>, range1(dim1))
    /\ UNCHANGED notRg

Range2(dim1, dim2) ==
    /\ rng' = Object(2, "sizes", <<dim1, dim2>>, range2(dim1, dim2))
    /\ UNCHANGED notRg

Range3(dim1, dim2, dim3) ==
    /\ rng' = Object(3, "sizes", <<dim1, dim2, dim3>>, range3(dim1, dim2, dim3))
    /\ UNCHANGED notRg

NextRange ==
    \/ \E dims \in Dims : RangeDefault(dims)
    \/ \E dim1 \in DimArgs : Range1(dim1)
    \/ \E dim1, dim2 \in DimArgs : Range2(dim1, dim2)
    \/ \E dim1, dim2, dim3 \in DimArgs : Range3(dim1, dim2, dim3)

SpecRange == InitRange /\ [][NextRange]_vars

\* range<dims> constructed from ones: range<1>(1), range<2>(1, 1),
\* range<3>(1, 1, 1)
RangeOfOnes(dims) ==
    IF dims = 1 THEN range1(1) ELSE IF dims = 2 THEN range2(1, 1) ELSE range3(1, 1, 1)

\* C10: a default-constructed range<N> holds 1 in every dimension and equals
\* range<1>(1), range<2>(1, 1), range<3>(1, 1, 1), both under operator== and
\* component by component; range<1>(d) stores (d, 1, 1) and range<2>(a, b)
\* stores (a, b, 1)
RangeConstructors ==
    /\ rng.ctor = "default" =>
           /\ \A i \in 0..2 : rng.m_idx[i] = 1
           /\ is_equal(rng.dims, rng.m_idx, RangeOfOnes(rng.dims))
           /\ rng.m_idx = RangeOfOnes(rng.dims)
    /\ (rng.ctor = "sizes" /\ rng.dims = 1) =>
           (rng.m_idx[0] = rng.args[1] /\ rng.m_idx[1] = 1 /\ rng.m_idx[2] = 1)
    /\ (rng.ctor = "sizes" /\ rng.dims = 2) =>
           (rng.m_idx[0] = rng.args[1] /\ rng.m_idx[1] = rng.args[2] /\ rng.m_idx[2] = 1)

\* a range<2> has been constructed from two sizes that differ from 1 and from
\* each other
RangeWitness ==
    /\ rng.ctor = "sizes"
    /\ rng.dims = 2
    /\ rng.args = <<2, 0>>
    /\ rng.m_idx[2] = 1

----------------------------------------------------------------------------
(* id<1>, id<2>, id<3>, SYCL/id.h                                          *)

\* constructor arguments are drawn from 0..MaxIdArg
MaxIdArg == 4

IdArgs == 0..MaxIdArg

notId == <<redVars, atVars, cpVars, pfVars, usmVars, rgVars, mpVars>>

id_default_ones(dims) == index_array_operators(1, 1, 1)

\* id<1>::id(), id<2>::id(), id<3>::id()
id_default(dims) == index_array_operators(0, 0, 0)

\* id<1>::id(size_t x)
id1(x) == index_array_operators(x, 0, 0)

\* id<2>::id(size_t x, size_t y)
id2(x, y) == index_array_operators(x, y, 0)

\* id<3>::id(size_t x, size_t y, size_t z)
id3(x, y, z) == index_array_operators(x, y, z)

\* no id has been constructed yet
InitId ==
    /\ idobj = [dims |-> 0, ctor |-> "none", args |-> <<>>, m_idx |-> <<>>]
    /\ IdleReduce /\ IdleAtomic /\ IdleCopy /\ IdlePfwi /\ IdleUsm /\ IdleRange
    /\ IdleMptr

IdDefault(dims) ==
    /\ idobj' = Object(dims, "default", <<>>, id_default(dims))
    /\ UNCHANGED notId

Id1(x) ==
    /\ idobj' = Object(1, "values", <<x>>, id1(x))
    /\ UNCHANGED notId

Id2(x, y) ==
    /\ idobj' = Object(2, "values", <<x, y>>, id2(x, y))
    /\ UNCHANGED notId

Id3(x, y, z) ==
    /\ idobj' = Object(3, "values", <<x, y, z>>, id3(x, y, z))
    /\ UNCHANGED notId

NextId ==
    \/ \E dims \in Dims : IdDefault(dims)
    \/ \E x \in IdArgs : Id1(x)
    \/ \E x, y \in IdArgs : Id2(x, y)
    \/ \E x, y, z \in IdArgs : Id3(x, y, z)

SpecId == InitId /\ [][NextId]_vars

\* C11: a default-constructed id<1> or id<2> holds {0, 0, 0}: all three
\* stored components are 0
IdDefaultZero ==
    (idobj.ctor = "default" /\ idobj.dims \in {1, 2}) =>
        \A i \in 0..2 : idobj.m_idx[i] = 0

\* an id<2> has been default-constructed
IdDefaultWitness ==
    /\ idobj.ctor = "default"
    /\ idobj.dims = 2
    /\ idobj.m_idx = index_array(0, 0, 0)

----------------------------------------------------------------------------
(* multi_ptr pointer arithmetic on the host, SYCL/multi_pointer.h          *)

\* offsets r are drawn from -MaxOffset..MaxOffset
MaxOffset == 2

\* number of operator calls in a run
MaxCalls == 2

Offsets == (0 - MaxOffset)..MaxOffset

\* sizeof(dataType) for the element types tried: char and int
ElemSizes == {1, 4}

\* the two multi_ptr objects of a run
PtrNames == {"p", "q"}

notMp == <<redVars, atVars, cpVars, pfVars, usmVars, rgVars, idVars>>

\* pointer arithmetic on a dataType*: ptr + r is r elements further
PtrAdd(ptr, r) == ptr + r * msize

\* multi_ptr_base::increment_pointer(r): m_elem += r; the new m_elem
increment_pointer(m_elem, r) == PtrAdd(m_elem, r)

\* get_pointer_internal() on the host: get_pointer_internal_type returns
\* m_elem itself
get_pointer_internal(m_elem) == m_elem

\* The operators map m_elem of *this and r to the m_elem of *this after the
\* call (this), the m_elem of the object returned (ret) and whether the
\* object returned is *this (isThis).

\* multi_ptr& operator+=(difference_type r)
operator_plus_assign(m_elem, r) ==
    LET e == increment_pointer(m_elem, r)
    IN [this |-> e, ret |-> e, isThis |-> TRUE]

\* multi_ptr operator+(difference_type r) const
operator_plus(m_elem, r) ==
    [this |-> m_elem, ret |-> PtrAdd(get_pointer_internal(m_elem), r), isThis |-> FALSE]

operator_minus_assign_forward(m_elem, r) ==
    LET e == increment_pointer(m_elem, r)
    IN [this |-> e, ret |-> e, isThis |-> TRUE]

\* multi_ptr& operator-=(difference_type r)
operator_minus_assign(m_elem, r) ==
    LET e == increment_pointer(m_elem, 0 - r)
    IN [this |-> e, ret |-> e, isThis |-> TRUE]

\* multi_ptr operator-(difference_type r) const
operator_minus(m_elem, r) ==
    [this |-> m_elem, ret |-> PtrAdd(get_pointer_internal(m_elem), 0 - r), isThis |-> FALSE]

\* p points at an element of an array, q is default-constructed (nullptr)
InitMptr ==
    /\ msize \in ElemSizes
    /\ \E idx \in 0..MaxOffset : mobj = [n \in PtrNames |-> IF n = "p" THEN 64 + idx * msize ELSE 0]
    /\ mhist = <<>>
    /\ IdleReduce /\ IdleAtomic /\ IdleCopy /\ IdlePfwi /\ IdleUsm /\ IdleRange
    /\ IdleId

\* the call x op r with result res: *this is updated, and the multi_ptr
\* returned by value by + and - is assigned to q
Call(op, x, r, res) ==
    /\ mobj' = IF res.isThis
               THEN [mobj EXCEPT ![x] = res.this]
               ELSE [[mobj EXCEPT ![x] = res.this] EXCEPT !["q"] = res.ret]
    /\ mhist' = Append(mhist, [op |-> op, x |-> x, r |-> r, pre |-> mobj[x],
                               this |-> res.this, ret |-> res.ret,
                               isThis |-> res.isThis])
    /\ UNCHANGED msize
    /\ UNCHANGED notMp

\* x += r
PlusAssign(x, r) ==
    /\ Len(mhist) < MaxCalls
    /\ Call("+=", x, r, operator_plus_assign(mobj[x], r))

\* q = x + r
Plus(x, r) ==
    /\ Len(mhist) < MaxCalls
    /\ Call("+", x, r, operator_plus(mobj[x], r))

\* x -= r
MinusAssign(x, r) ==
    /\ Len(mhist) < MaxCalls
    /\ Call("-=", x, r, operator_minus_assign(mobj[x], r))

\* q = x - r
Minus(x, r) ==
    /\ Len(mhist) < MaxCalls
    /\ Call("-", x, r, operator_minus(mobj[x], r))

NextMptr ==
    \/ \E x \in PtrNames : \E r \in Offsets : PlusAssign(x, r)
    \/ \E x \in PtrNames : \E r \in Offsets : Plus(x, r)
    \/ \E x \in PtrNames : \E r \in Offsets : MinusAssign(x, r)
    \/ \E x \in PtrNames : \E r \in Offsets : Minus(x, r)

SpecMptr == InitMptr /\ [][NextMptr]_vars

\* the address r elements after address a
Moved(a, r) == a + r * msize

\* C12: p + r and p - r return a new multi_ptr r elements after or before p
\* and leave p unchanged; p += r and p -= r move p itself by r elements and
\* return p; so (p + r) - r holds the address of p, and p += r followed by
\* p -= r restores the address p had
PointerArithmetic ==
    /\ \A k \in 1..Len(mhist) :
           LET h == mhist[k]
           IN /\ h.op = "+" => (h.ret = Moved(h.pre, h.r) /\ h.this = h.pre /\ ~h.isThis)
              /\ h.op = "-" => (h.ret = Moved(h.pre, 0 - h.r) /\ h.this = h.pre /\ ~h.isThis)
              /\ h.op = "+=" => (h.this = Moved(h.pre, h.r) /\ h.isThis /\ h.ret = h.this)
              /\ h.op = "-=" => (h.this = Moved(h.pre, 0 - h.r) /\ h.isThis /\ h.ret = h.this)
    /\ \A k \in 1..(Len(mhist) - 1) :
           LET g == mhist[k]
               h == mhist[k + 1]
           IN /\ (g.op = "+" /\ h.op = "-" /\ h.x = "q" /\ h.r = g.r) =>
                      (h.ret = g.pre /\ (k + 1 = Len(mhist) => mobj["q"] = g.pre))
              /\ (g.op = "+=" /\ h.op = "-=" /\ h.x = g.x /\ h.r = g.r) =>
                      (h.this = g.pre /\ (k + 1 = Len(mhist) => mobj[g.x] = g.pre))

\* q = p + r then q = q - r with a non-zero r on a pointer to int has run
PointerArithmeticWitness ==
    /\ msize = 4
    /\ Len(mhist) = 2
    /\ mhist[1].op = "+" /\ mhist[1].x = "p" /\ mhist[1].r = MaxOffset
    /\ mhist[2].op = "-" /\ mhist[2].x = "q" /\ mhist[2].r = MaxOffset
    /\ mobj["q"] = mobj["p"]
    /\ mhist[1].ret # mobj["p"]

\* p += r then p -= r with a negative r on a pointer to int has run
PlusMinusAssignWitness ==
    /\ msize = 4
    /\ Len(mhist) = 2
    /\ mhist[1].op = "+=" /\ mhist[1].x = "p" /\ mhist[1].r = 0 - MaxOffset
    /\ mhist[2].op = "-=" /\ mhist[2].x = "p" /\ mhist[2].r = 0 - MaxOffset
    /\ mobj["p"] = mhist[1].pre

====
